---- MODULE Spec2Model ----
(***************************************************************************)
(* The I2C1 bus-master driver of src/src/i2c.rs as a state machine: the    *)
(* register block the driver programs, the ownership of the peripheral and *)
(* pin handles, the blocking write / read / write_read calls step by step  *)
(* (one step per register access), and the bus controller's reactions.     *)
(***************************************************************************)
EXTENDS Integers, Sequences, FiniteSets, TLC

VARIABLES
    i2c,        \* the I2C1 register block: ctlr1, ctlr2, ckcfgr, star1, star2, datar
    pcfr,       \* the two I2C1 remap bits of the shared AFIO PCFR register
    rcc,        \* the clock gates of I2C1 (APB1) and AFIO (APB2)
    bus,        \* what the bus controller is doing on the wire
    callerHas,  \* the resource handles (I2C1, pins) the application owns
    engines,    \* the live I2c<Scl, Sda> values, each owning its three handles
    pc,         \* position of the running call ("idle": none running)
    op,         \* the call that is running or has last returned
    address,    \* its address argument (u8)
    bytes,      \* its bytes argument
    buffer,     \* its buffer argument
    idx,        \* number of loop iterations completed
    haveS1,     \* inside wait_while: STAR1 has been read, STAR2 not yet
    s1,         \* the STAR1 value wait_while has read
    result,     \* the value the call returned
    writeResult,\* write_read: what its write part returned
    log,        \* register accesses of the running call, polls excluded
    openArgs,   \* arguments of the last i2c1() call
    dirtyOpen   \* history: i2c1() has just returned and had found used I2C1 registers

vars == <<i2c, pcfr, rcc, bus, callerHas, engines, pc, op, address, bytes, buffer,
          idx, haveS1, s1, result, writeResult, log, openArgs, dirtyOpen>>

callVars == <<pc, op, address, bytes, buffer, idx, haveS1, s1, result, writeResult>>
ownVars  == <<callerHas, engines>>
histVars == <<openArgs, dirtyOpen>>

----------------------------------------------------------------------------
(* Bounds of the model *)

\* longest bytes argument of write and longest buffer argument of read
MaxLen == 2

\* longest bytes argument and longest buffer argument of write_read
MaxPart == 1

----------------------------------------------------------------------------
(* Configuration: I2cConfig, DutyCycle, I2C1Pair *)

DutyCycles == {"Perc33", "Perc36"}

slow_mode      == [speed |-> 100 * 1000,  duty |-> "Perc33"]
fast_mode      == [speed |-> 400 * 1000,  duty |-> "Perc33"]
fast_mode_plus == [speed |-> 1000 * 1000, duty |-> "Perc33"]

\* REMAP_BITS of the three valid (Scl, Sda) pairs: (high, low)
Pairs == {"PC2_PC1", "PD1_PD0", "PC5_PC6"}

REMAP_BITS(pair) ==
    CASE pair = "PC2_PC1" -> [high |-> FALSE, low |-> FALSE]
      [] pair = "PD1_PD0" -> [high |-> FALSE, low |-> TRUE]
      [] pair = "PC5_PC6" -> [high |-> TRUE,  low |-> FALSE]

SclOf(pair) ==
    CASE pair = "PC2_PC1" -> "PC2" [] pair = "PD1_PD0" -> "PD1" [] pair = "PC5_PC6" -> "PC5"

SdaOf(pair) ==
    CASE pair = "PC2_PC1" -> "PC1" [] pair = "PD1_PD0" -> "PD0" [] pair = "PC5_PC6" -> "PC6"

Resources == {"I2C1"} \cup {SclOf(p) : p \in Pairs} \cup {SdaOf(p) : p \in Pairs}

----------------------------------------------------------------------------
(* Clock and timing computation of i2c1() *)

ClockMinMHz == 2
ClockMaxMHz == 36
StandardMaxKHz == 100

Clamp(x, lo, hi) == IF x < lo THEN lo ELSE IF x > hi THEN hi ELSE x

\* HertzU32::to_MHz: truncating division
to_MHz(hz) == hz \div (1000 * 1000)

\* a variant without the clamp
FreqOfUnclamped(clockHz) == to_MHz(clockHz)

\* freq = I2C1::clock(clocks).to_MHz().clamp(2, 36)
FreqOf(clockHz) == Clamp(to_MHz(clockHz), ClockMinMHz, ClockMaxMHz)

\* fast_mode = config.speed > 100 kHz
FastMode(config) == config.speed > StandardMaxKHz * 1000

\* the clock the divider is computed from: I2C1::clock(clocks).to_Hz(), not clamped
DividerClock(clockHz) == clockHz

\* a variant of the match that tests the duty cycle only
FactorByDutyOnly(config) == IF config.duty = "Perc33" THEN 3 ELSE 25

\* the factor of the speed in the divider's three cases
Factor(config) ==
    IF ~FastMode(config) THEN 2
    ELSE IF config.duty = "Perc33" THEN 3 ELSE 25

\* ccr: u32 arithmetic; speed * 25 stays far below 2^32 for every bus speed
\* the controller supports (up to 1 MHz), so no product wraps
Ccr(clockHz, config) == DividerClock(clockHz) \div (config.speed * Factor(config))

\* ccr as u16, then written into the 12-bit CCR field
CcrField(ccr) == (ccr % 65536) % 4096

F_SBit(config) == FastMode(config)

\* a variant that programs the duty bit in fast mode only
DutyBitFastOnly(config) == FastMode(config) /\ config.duty = "Perc36"

DutyBit(config) == config.duty = "Perc36"

----------------------------------------------------------------------------
(* Registers *)

Ctlr1Reset  == [pe |-> FALSE, ack |-> FALSE, start |-> FALSE, stop |-> FALSE, swrst |-> FALSE]
Ctlr2Reset  == [freq |-> 0]
CkcfgrReset == [ccr |-> 0, f_s |-> FALSE, duty |-> FALSE]
Star1Reset  == [sb |-> FALSE, addr |-> FALSE, btf |-> FALSE, rx_ne |-> FALSE, tx_e |-> FALSE,
                berr |-> FALSE, arlo |-> FALSE, af |-> FALSE, ovr |-> FALSE]
Star2Reset  == [msl |-> FALSE, busy |-> FALSE, tra |-> FALSE]
DatarReset  == [datar |-> 0]

I2cReset == [ctlr1 |-> Ctlr1Reset, ctlr2 |-> Ctlr2Reset, ckcfgr |-> CkcfgrReset,
             star1 |-> Star1Reset, star2 |-> Star2Reset, datar |-> DatarReset]

PcfrReset == [i2c1remap1 |-> FALSE, i2c1rm |-> FALSE]
RccReset  == [i2c1en |-> FALSE, afioen |-> FALSE]

\* one register access of the log
Acc(reg, what, val) == [reg |-> reg, what |-> what, val |-> val]

----------------------------------------------------------------------------
(* i2c1(): initialise the peripheral *)

\* I2C1::reset(&mut rcc.apb1): the reset line returns the block to its
\* power-on register values
ResetLine(i) == I2cReset

\* a variant of the first two calls that leaves the reset call out
OpenStartNoReset(i) == i

\* I2C1::enable(..); I2C1::reset(..): the register block i2c1() then works on
OpenStart(i) == ResetLine(i)

\* the controller while SWRST is set: its status flags are held in reset
SwrstHold(i) == [i EXCEPT !.star1 = Star1Reset, !.star2 = Star2Reset]

\* the register block after each of the six I2C1 register writes of i2c1(),
\* in order: swrst set, swrst clear, ctlr2.freq, ckcfgr, pe set, ack set
AfterSwrstSet(i)   == SwrstHold([i EXCEPT !.ctlr1.swrst = TRUE])
AfterSwrstClear(i) == [AfterSwrstSet(i) EXCEPT !.ctlr1.swrst = FALSE]
AfterFreq(i, a)    == [AfterSwrstClear(i) EXCEPT !.ctlr2.freq = FreqOf(a.clock)]
AfterCkcfgr(i, a)  ==
    [AfterFreq(i, a) EXCEPT !.ckcfgr = [ccr  |-> CcrField(Ccr(a.clock, a.config)),
                                        f_s  |-> F_SBit(a.config),
                                        duty |-> DutyBit(a.config)]]
\* a variant that sets PE and ACK in one write
AfterPeWithAck(i, a) == [AfterCkcfgr(i, a) EXCEPT !.ctlr1.pe = TRUE, !.ctlr1.ack = TRUE]
AfterPe(i, a)      == [AfterCkcfgr(i, a) EXCEPT !.ctlr1.pe = TRUE]
AfterAck(i, a)     == [AfterPe(i, a) EXCEPT !.ctlr1.ack = TRUE]

\* the remap bits i2c1() programs
RemapOf(pair) == [i2c1remap1 |-> REMAP_BITS(pair).high, i2c1rm |-> REMAP_BITS(pair).low]

\* every register write of i2c1(), in program order, with the value written
\* (of the shared RCC and AFIO registers: the bits i2c1() sets); i is the
\* register block found at the call
OpenLog(i, a) ==
    LET i0 == OpenStart(i) IN
    << Acc("RCC_APB1PCENR", "i2c1en set",   [i2c1en |-> TRUE]),
       Acc("RCC_APB1PRSTR", "i2c1rst set",  [i2c1rst |-> TRUE]),
       Acc("RCC_APB1PRSTR", "i2c1rst clear", [i2c1rst |-> FALSE]),
       Acc("RCC_APB2PCENR", "afioen set",   [afioen |-> TRUE]),
       Acc("CTLR1",  "swrst set",   [i0.ctlr1 EXCEPT !.swrst = TRUE]),
       Acc("CTLR1",  "swrst clear", AfterSwrstClear(i0).ctlr1),
       Acc("PCFR",   "remap",       RemapOf(a.pair)),
       Acc("CTLR2",  "freq",        AfterFreq(i0, a).ctlr2),
       Acc("CKCFGR", "ccr f_s duty", AfterCkcfgr(i0, a).ckcfgr),
       Acc("CTLR1",  "pe set",      AfterPe(i0, a).ctlr1),
       Acc("CTLR1",  "ack set",     AfterAck(i0, a).ctlr1) >>

\* the engine value i2c1() returns: Self { i2c, scl, sda }
EngineOf(pair) == [i2c |-> "I2C1", scl |-> SclOf(pair), sda |-> SdaOf(pair)]

HandlesOf(e) == {e.i2c, e.scl, e.sda}

Idle == pc = "idle"

\* no call is running: its arguments and locals are gone
NoFrame ==
    /\ pc' = "idle"
    /\ address' = 0
    /\ bytes' = << >>
    /\ buffer' = << >>
    /\ idx' = 0
    /\ haveS1' = FALSE
    /\ s1' = Star1Reset

\* i2c1(i2c, scl, sda, config, rcc, clocks): the three handles are moved in
Open(pair, config, clock) ==
    LET a == [pair |-> pair, config |-> config, clock |-> clock] IN
    /\ Idle
    /\ HandlesOf(EngineOf(pair)) \subseteq callerHas
    /\ callerHas' = callerHas \ HandlesOf(EngineOf(pair))
    /\ engines' = Append(engines, EngineOf(pair))
    /\ rcc' = [rcc EXCEPT !.i2c1en = TRUE, !.afioen = TRUE]
    /\ pcfr' = RemapOf(pair)
    /\ i2c' = AfterAck(OpenStart(i2c), a)
    /\ bus' = "idle"
    /\ log' = OpenLog(i2c, a)
    /\ op' = "open"
    /\ result' = "none"
    /\ writeResult' = "none"
    /\ openArgs' = a
    /\ dirtyOpen' = (i2c.star1 # Star1Reset \/ i2c.datar # DatarReset)
    /\ NoFrame

\* a variant of release that takes the engine by reference: the handles are
\* handed out while the engine value stays usable
ReleaseByRef(k) ==
    /\ Idle
    /\ k \in 1..Len(engines)
    /\ callerHas' = callerHas \cup HandlesOf(engines[k])
    /\ i2c' = [i2c EXCEPT !.ctlr1.pe = FALSE]
    /\ log' = << Acc("CTLR1", "pe clear", [i2c.ctlr1 EXCEPT !.pe = FALSE]) >>
    /\ op' = "release"
    /\ result' = "none"
    /\ writeResult' = "none"
    /\ dirtyOpen' = FALSE
    /\ NoFrame
    /\ UNCHANGED <<engines, pcfr, rcc, bus, openArgs>>

\* a variant of release that clears PE with write() in place of modify(): the
\* other bits of CTLR1 get their reset values
ReleaseByWrite(k) ==
    /\ Idle
    /\ k \in 1..Len(engines)
    /\ engines' = SubSeq(engines, 1, k - 1) \o SubSeq(engines, k + 1, Len(engines))
    /\ callerHas' = callerHas \cup HandlesOf(engines[k])
    /\ i2c' = [i2c EXCEPT !.ctlr1 = Ctlr1Reset]
    /\ log' = << Acc("CTLR1", "pe clear", Ctlr1Reset) >>
    /\ op' = "release"
    /\ result' = "none"
    /\ writeResult' = "none"
    /\ dirtyOpen' = FALSE
    /\ NoFrame
    /\ UNCHANGED <<pcfr, rcc, bus, openArgs>>

\* release(self): clears PE and moves the three handles back out
Release(k) ==
    /\ Idle
    /\ k \in 1..Len(engines)
    /\ engines' = SubSeq(engines, 1, k - 1) \o SubSeq(engines, k + 1, Len(engines))
    /\ callerHas' = callerHas \cup HandlesOf(engines[k])
    /\ i2c' = [i2c EXCEPT !.ctlr1.pe = FALSE]
    /\ log' = << Acc("CTLR1", "pe clear", [i2c.ctlr1 EXCEPT !.pe = FALSE]) >>
    /\ op' = "release"
    /\ result' = "none"
    /\ writeResult' = "none"
    /\ dirtyOpen' = FALSE
    /\ NoFrame
    /\ UNCHANGED <<pcfr, rcc, bus, openArgs>>

----------------------------------------------------------------------------
(* The bus controller: how a DATAR access acts on the flags *)

\* a write of DATAR: after a start it puts the address byte on the wire (and
\* with the STAR1 read before it clears SB); in transmitter mode it fills the
\* transmit buffer
DatarWritten(i, v) ==
    IF i.star1.sb
    THEN [i EXCEPT !.datar.datar = v, !.star1.sb = FALSE]
    ELSE [i EXCEPT !.datar.datar = v, !.star1.tx_e = FALSE, !.star1.btf = FALSE]

BusAfterDatarWrite(i, b) ==
    IF b = "started" THEN "addr" ELSE IF b = "tx" THEN "txbyte" ELSE b

\* a read of DATAR empties the receive buffer
DatarRead(i) == [i EXCEPT !.star1.rx_ne = FALSE, !.star1.btf = FALSE]

\* a read of STAR2 after a read of STAR1 that saw ADDR set clears ADDR
Star2Read(i, a) == IF a.addr THEN [i EXCEPT !.star1.addr = FALSE] ELSE i

----------------------------------------------------------------------------
(* wait_while, check_error *)

WaitPcs == {"w_idle", "w_sb", "w_ad", "w_txe", "w_btf", "r_idle", "r_sb", "r_ad", "r_rxne"}

\* a variant whose last wait of write does not wait for BTF
WaitPredNoBtf(p, a, b) ==
    CASE p = "w_idle" -> b.busy
      [] p = "w_sb"   -> ~a.sb \/ ~b.busy \/ ~b.msl
      [] p = "w_ad"   -> ~a.addr \/ ~a.tx_e \/ ~b.busy \/ ~b.msl \/ ~b.tra
      [] p = "w_txe"  -> ~a.tx_e
      [] p = "w_btf"  -> ~a.tx_e \/ ~b.busy \/ ~b.msl \/ ~b.tra
      [] p = "r_idle" -> b.busy
      [] p = "r_sb"   -> ~a.sb \/ ~b.busy \/ ~b.msl
      [] p = "r_ad"   -> ~a.addr \/ ~b.busy \/ ~b.msl
      [] p = "r_rxne" -> ~a.rx_ne \/ ~b.msl \/ ~b.busy

\* the closure f(s1, s2) each wait_while call is given: TRUE = keep waiting
WaitPred(p, a, b) ==
    CASE p = "w_idle" -> b.busy
      [] p = "w_sb"   -> ~a.sb \/ ~b.busy \/ ~b.msl
      [] p = "w_ad"   -> ~a.addr \/ ~a.tx_e \/ ~b.busy \/ ~b.msl \/ ~b.tra
      [] p = "w_txe"  -> ~a.tx_e
      [] p = "w_btf"  -> ~a.btf \/ ~a.tx_e \/ ~b.busy \/ ~b.msl \/ ~b.tra
      [] p = "r_idle" -> b.busy
      [] p = "r_sb"   -> ~a.sb \/ ~b.busy \/ ~b.msl
      [] p = "r_ad"   -> ~a.addr \/ ~b.busy \/ ~b.msl
      [] p = "r_rxne" -> ~a.rx_ne \/ ~b.msl \/ ~b.busy

\* for byte in bytes { wait; write }: the next position after n iterations
WLoop(n) == IF n < Len(bytes) THEN "w_txe" ELSE "w_btf"

\* a variant of read that goes from its loop to check_error, without the stop
RLoopNoStop(n) == IF n < Len(buffer) THEN "r_rxne" ELSE "r_check"

\* for byte in buffer { wait; read }
RLoop(n) == IF n < Len(buffer) THEN "r_rxne" ELSE "r_stop"

\* the statement that follows each wait_while call
AfterWait(p) ==
    CASE p = "w_idle" -> "w_start"
      [] p = "w_sb"   -> "w_addr"
      [] p = "w_ad"   -> WLoop(idx)
      [] p = "w_txe"  -> "w_data"
      [] p = "w_btf"  -> "w_stop"
      [] p = "r_idle" -> "r_start"
      [] p = "r_sb"   -> "r_addr"
      [] p = "r_ad"   -> RLoop(idx)
      [] p = "r_rxne" -> "r_data"

\* a variant of check_error that tests the acknowledge failure first
check_error_af_first(a) ==
    IF a.af THEN "AcknowledgeFailure"
    ELSE IF a.berr THEN "BusError"
    ELSE IF a.arlo THEN "ArbitrationLost"
    ELSE IF a.ovr THEN "Overrun"
    ELSE "Ok"

\* check_error on the STAR1 value it has read
check_error(a) ==
    IF a.berr THEN "BusError"
    ELSE IF a.af THEN "AcknowledgeFailure"
    ELSE IF a.arlo THEN "ArbitrationLost"
    ELSE IF a.ovr THEN "Overrun"
    ELSE "Ok"

Errors == {"BusError", "AcknowledgeFailure", "ArbitrationLost", "Overrun"}

----------------------------------------------------------------------------
(* write, read, write_read *)

\* the caller's values
Addresses == {80, 127}
\* the bytes arguments: the first n bytes of 48, 85, 122, ..., all different
ByteAt(j) == (j * 37 + 11) % 256
BytesArg(n) == [j \in 1..n |-> ByteAt(j)]
\* what a buffer holds before read() is called (0xEE)
Fill      == 14 * 16 + 14

\* a variant of the shift in a wider type: bit 7 of the address is kept
AddrWriteWide(a) == a * 2

\* address << 1 in u8
AddrWrite(a) == (a * 2) % 256

\* (address << 1) | 0b1
AddrRead(a) == AddrWrite(a) + 1

Live == Len(engines) > 0

StartCall(o, a, bs, n, p) ==
    /\ Idle
    /\ Live
    /\ pc' = p
    /\ op' = o
    /\ address' = a
    /\ bytes' = bs
    /\ buffer' = [k \in 1..n |-> Fill]
    /\ idx' = 0
    /\ haveS1' = FALSE
    /\ s1' = Star1Reset
    /\ result' = "none"
    /\ writeResult' = "none"
    /\ log' = << >>
    /\ dirtyOpen' = FALSE
    /\ UNCHANGED <<i2c, pcfr, rcc, bus, ownVars, openArgs>>

\* a variant of write that sets START without the wait for a free bus
CallWriteNoWait(a, bs) == StartCall("write", a, bs, 0, "w_start")

CallWrite(a, bs) == StartCall("write", a, bs, 0, "w_idle")

CallRead(a, n) == StartCall("read", a, << >>, n, "r_idle")

CallWriteRead(a, bs, n) == StartCall("write_read", a, bs, n, "w_idle")

\* wait_while: let s1 = self.i2c.star1.read()
PollStar1 ==
    /\ pc \in WaitPcs
    /\ ~haveS1
    /\ s1' = i2c.star1
    /\ haveS1' = TRUE
    /\ UNCHANGED <<i2c, pcfr, rcc, bus, ownVars, histVars, pc, op, address, bytes, buffer,
                   idx, result, writeResult, log>>

\* a variant of wait_while that gives the closure the status register 1 of
\* the moment of the STAR2 read, not the value read before it
PollStar2Fresh ==
    /\ pc \in WaitPcs
    /\ haveS1
    /\ i2c' = Star2Read(i2c, s1)
    /\ pc' = IF WaitPred(pc, i2c.star1, i2c.star2) THEN pc ELSE AfterWait(pc)
    /\ haveS1' = FALSE
    /\ s1' = Star1Reset
    /\ UNCHANGED <<pcfr, rcc, bus, ownVars, histVars, op, address, bytes, buffer,
                   idx, result, writeResult, log>>

\* wait_while: let s2 = self.i2c.star2.read(); f(s1, s2)
PollStar2 ==
    /\ pc \in WaitPcs
    /\ haveS1
    /\ i2c' = Star2Read(i2c, s1)
    /\ pc' = IF WaitPred(pc, s1, i2c.star2) THEN pc ELSE AfterWait(pc)
    /\ haveS1' = FALSE
    /\ s1' = Star1Reset
    /\ UNCHANGED <<pcfr, rcc, bus, ownVars, histVars, op, address, bytes, buffer,
                   idx, result, writeResult, log>>

\* self.i2c.ctlr1.modify(|_, w| w.start().set_bit())
SetStart ==
    /\ pc \in {"w_start", "r_start"}
    /\ i2c' = [i2c EXCEPT !.ctlr1.start = TRUE]
    /\ log' = Append(log, Acc("CTLR1", "start set", [i2c.ctlr1 EXCEPT !.start = TRUE]))
    /\ pc' = IF pc = "w_start" THEN "w_sb" ELSE "r_sb"
    /\ UNCHANGED <<pcfr, rcc, bus, ownVars, histVars, op, address, bytes, buffer,
                   idx, haveS1, s1, result, writeResult>>

\* the address byte each call writes
AddressByte(p, a) == IF p = "w_addr" THEN AddrWrite(a) ELSE AddrRead(a)

\* self.i2c.datar.write(|w| w.datar().variant(address << 1 [| 0b1]))
SendAddress ==
    /\ pc \in {"w_addr", "r_addr"}
    /\ i2c' = DatarWritten(i2c, AddressByte(pc, address))
    /\ bus' = BusAfterDatarWrite(i2c, bus)
    /\ log' = Append(log, Acc("DATAR", "write", [datar |-> AddressByte(pc, address)]))
    /\ pc' = IF pc = "w_addr" THEN "w_ad" ELSE "r_ad"
    /\ UNCHANGED <<pcfr, rcc, ownVars, histVars, op, address, bytes, buffer,
                   idx, haveS1, s1, result, writeResult>>

\* a variant of the loop of write that sends the first byte every time
ByteToSendFirst(bs, n) == bs[1]

\* the byte the loop of write sends in its iteration n + 1
ByteToSend(bs, n) == bs[n + 1]

\* self.i2c.datar.write(|w| w.datar().variant(*byte))
SendByte ==
    /\ pc = "w_data"
    /\ i2c' = DatarWritten(i2c, ByteToSend(bytes, idx))
    /\ bus' = BusAfterDatarWrite(i2c, bus)
    /\ log' = Append(log, Acc("DATAR", "write", [datar |-> ByteToSend(bytes, idx)]))
    /\ idx' = idx + 1
    /\ pc' = WLoop(idx + 1)
    /\ UNCHANGED <<pcfr, rcc, ownVars, histVars, op, address, bytes, buffer,
                   haveS1, s1, result, writeResult>>

\* a variant of the loop of read that stores every byte in slot 0
StoredInFirst(buf, n, v) == [buf EXCEPT ![1] = v]

\* the buffer after the loop of read has stored v in its iteration n + 1
Stored(buf, n, v) == [buf EXCEPT ![n + 1] = v]

\* *byte = self.i2c.datar.read().datar().bits()
ReadByte ==
    /\ pc = "r_data"
    /\ buffer' = Stored(buffer, idx, i2c.datar.datar)
    /\ i2c' = DatarRead(i2c)
    /\ log' = Append(log, Acc("DATAR", "read", i2c.datar))
    /\ idx' = idx + 1
    /\ pc' = RLoop(idx + 1)
    /\ UNCHANGED <<pcfr, rcc, bus, ownVars, histVars, op, address, bytes,
                   haveS1, s1, result, writeResult>>

\* self.i2c.ctlr1.modify(|_, w| w.stop().set_bit())
SetStop ==
    /\ pc \in {"w_stop", "r_stop"}
    /\ i2c' = [i2c EXCEPT !.ctlr1.stop = TRUE]
    /\ log' = Append(log, Acc("CTLR1", "stop set", [i2c.ctlr1 EXCEPT !.stop = TRUE]))
    /\ pc' = IF pc = "w_stop" THEN "w_check" ELSE "r_check"
    /\ UNCHANGED <<pcfr, rcc, bus, ownVars, histVars, op, address, bytes, buffer,
                   idx, haveS1, s1, result, writeResult>>

\* a variant of write_read without the ? after write
AfterWritePartNoTry(o, res) == IF o = "write_read" THEN "r_idle" ELSE "idle"

\* a variant of write_read whose read part starts without the wait for idle
AfterWritePartNoWait(o, res) == IF o = "write_read" /\ res = "Ok" THEN "r_start" ELSE "idle"

\* where a call goes when its write() has returned res: write_read goes on
\* to read() only on Ok (the ? operator); write itself returns
AfterWritePart(o, res) == IF o = "write_read" /\ res = "Ok" THEN "r_idle" ELSE "idle"

\* self.check_error() as the last expression of write()
CheckErrorWrite ==
    /\ pc = "w_check"
    /\ log' = Append(log, Acc("STAR1", "read", i2c.star1))
    /\ pc' = AfterWritePart(op, check_error(i2c.star1))
    /\ writeResult' = IF op = "write_read" THEN check_error(i2c.star1) ELSE writeResult
    /\ result' = IF AfterWritePart(op, check_error(i2c.star1)) = "idle"
                 THEN check_error(i2c.star1) ELSE result
    /\ idx' = 0
    /\ UNCHANGED <<i2c, pcfr, rcc, bus, ownVars, histVars, op, address, bytes, buffer,
                   haveS1, s1>>

\* a variant of read whose check_error clears the error flags it has read
CheckErrorReadClearing ==
    /\ pc = "r_check"
    /\ log' = Append(log, Acc("STAR1", "read", i2c.star1))
    /\ pc' = "idle"
    /\ result' = check_error(i2c.star1)
    /\ i2c' = [i2c EXCEPT !.star1.berr = FALSE, !.star1.af = FALSE,
                          !.star1.arlo = FALSE, !.star1.ovr = FALSE]
    /\ UNCHANGED <<pcfr, rcc, bus, ownVars, histVars, op, address, bytes, buffer,
                   idx, haveS1, s1, writeResult>>

\* self.check_error() as the last expression of read()
CheckErrorRead ==
    /\ pc = "r_check"
    /\ log' = Append(log, Acc("STAR1", "read", i2c.star1))
    /\ pc' = "idle"
    /\ result' = check_error(i2c.star1)
    /\ UNCHANGED <<i2c, pcfr, rcc, bus, ownVars, histVars, op, address, bytes, buffer,
                   idx, haveS1, s1, writeResult>>

DriverStep ==
    \/ PollStar1 \/ PollStar2 \/ SetStart \/ SendAddress \/ SendByte \/ ReadByte
    \/ SetStop \/ CheckErrorWrite \/ CheckErrorRead

----------------------------------------------------------------------------
(* The bus controller and the bus: what sets the status flags *)

\* the byte a target sends next: each differs from the one in DATAR before it
RxNext(d) == (d * 5 + 3) % 256

Enabled == i2c.ctlr1.pe

\* START requested and the bus free: the start condition goes out
HwStartSent ==
    /\ Enabled
    /\ bus = "idle"
    /\ i2c.ctlr1.start
    /\ ~i2c.star2.busy
    /\ i2c' = [i2c EXCEPT !.ctlr1.start = FALSE, !.star1.sb = TRUE,
                          !.star2.msl = TRUE, !.star2.busy = TRUE]
    /\ bus' = "started"
    /\ UNCHANGED <<pcfr, rcc, ownVars, histVars, callVars, log>>

\* the target acknowledges the address byte: transmitter or receiver mode
HwAddrAck ==
    /\ Enabled
    /\ bus = "addr"
    /\ i2c' = IF i2c.datar.datar % 2 = 0
              THEN [i2c EXCEPT !.star1.addr = TRUE, !.star1.tx_e = TRUE, !.star2.tra = TRUE]
              ELSE [i2c EXCEPT !.star1.addr = TRUE]
    /\ bus' = IF i2c.datar.datar % 2 = 0 THEN "tx" ELSE "rx"
    /\ UNCHANGED <<pcfr, rcc, ownVars, histVars, callVars, log>>

\* no target acknowledges the address byte: AF is latched, ADDR never set
HwAddrNack ==
    /\ Enabled
    /\ bus = "addr"
    /\ i2c' = [i2c EXCEPT !.star1.af = TRUE]
    /\ bus' = "nack"
    /\ UNCHANGED <<pcfr, rcc, ownVars, histVars, callVars, log>>

\* the byte in the transmit buffer has gone out
HwByteSent ==
    /\ Enabled
    /\ bus = "txbyte"
    /\ i2c' = [i2c EXCEPT !.star1.tx_e = TRUE]
    /\ bus' = "tx"
    /\ UNCHANGED <<pcfr, rcc, ownVars, histVars, callVars, log>>

\* transmitter with nothing left to send: byte transfer finished
HwByteFinished ==
    /\ Enabled
    /\ bus = "tx"
    /\ i2c.star1.tx_e
    /\ ~i2c.star1.addr
    /\ ~i2c.star1.btf
    /\ i2c' = [i2c EXCEPT !.star1.btf = TRUE]
    /\ UNCHANGED <<pcfr, rcc, bus, ownVars, histVars, callVars, log>>

\* receiver: a byte arrives in the empty receive buffer
HwReceive ==
    /\ Enabled
    /\ bus = "rx"
    /\ ~i2c.star1.addr
    /\ ~i2c.star1.rx_ne
    /\ ~i2c.ctlr1.stop
    /\ i2c' = [i2c EXCEPT !.star1.rx_ne = TRUE, !.datar.datar = RxNext(i2c.datar.datar)]
    /\ UNCHANGED <<pcfr, rcc, bus, ownVars, histVars, callVars, log>>

\* STOP requested by the master: the stop condition goes out, the bus is free
HwStopSent ==
    /\ Enabled
    /\ i2c.ctlr1.stop
    /\ i2c.star2.msl
    /\ i2c' = [i2c EXCEPT !.ctlr1.stop = FALSE,
                          !.star1.addr = FALSE, !.star1.tx_e = FALSE, !.star1.btf = FALSE,
                          !.star2 = Star2Reset]
    /\ bus' = "idle"
    /\ UNCHANGED <<pcfr, rcc, ownVars, histVars, callVars, log>>

ErrorFlags == {"berr", "af", "arlo", "ovr"}

\* the controller latches an error flag during a transfer
HwError(f) ==
    /\ Enabled
    /\ bus # "idle"
    /\ ~i2c.star1[f]
    /\ i2c' = [i2c EXCEPT !.star1[f] = TRUE]
    /\ UNCHANGED <<pcfr, rcc, bus, ownVars, histVars, callVars, log>>

\* another master takes the free bus, and later frees it
OtherMaster ==
    /\ Enabled
    /\ bus = "idle"
    /\ ~i2c.star2.msl
    /\ i2c' = [i2c EXCEPT !.star2.busy = ~i2c.star2.busy]
    /\ UNCHANGED <<pcfr, rcc, bus, ownVars, histVars, callVars, log>>

Hardware ==
    \/ HwStartSent \/ HwAddrAck \/ HwAddrNack \/ HwByteSent \/ HwByteFinished
    \/ HwReceive
    \/ HwStopSent
    \/ (\E f \in ErrorFlags : HwError(f))
    \/ OtherMaster

----------------------------------------------------------------------------
(* Specifications *)

Init ==
    /\ i2c = I2cReset
    /\ pcfr = PcfrReset
    /\ rcc = RccReset
    /\ bus = "idle"
    /\ callerHas = Resources
    /\ engines = << >>
    /\ pc = "idle"
    /\ op = "none"
    /\ address = 0
    /\ bytes = << >>
    /\ buffer = << >>
    /\ idx = 0
    /\ haveS1 = FALSE
    /\ s1 = Star1Reset
    /\ result = "none"
    /\ writeResult = "none"
    /\ log = << >>
    /\ openArgs = [pair |-> "PC2_PC1", config |-> fast_mode, clock |-> 0]
    /\ dirtyOpen = FALSE

\* the arguments i2c1() is called with
OpenArg(p, c, k) == [pair |-> p, config |-> c, clock |-> k]

OpenInputs ==
    { OpenArg("PC2_PC1", slow_mode, 8 * 1000000),
      OpenArg("PC5_PC6", [speed |-> 400 * 1000, duty |-> "Perc36"], 48 * 1000000) }

Calls ==
    \/ \E a \in Addresses, m \in 0..MaxLen : CallWrite(a, BytesArg(m))
    \/ \E a \in Addresses, n \in 0..MaxLen : CallRead(a, n)
    \/ \E a \in Addresses, m \in 0..MaxPart, n \in 0..MaxPart :
          CallWriteRead(a, BytesArg(m), n)

Next ==
    \/ \E a \in OpenInputs : Open(a.pair, a.config, a.clock)
    \/ \E k \in 1..Len(engines) : Release(k)
    \/ Calls
    \/ DriverStep
    \/ Hardware

Spec == Init /\ [][Next]_vars

\* The processor keeps executing the running call, and the bus controller
\* completes each bus phase it has begun: a pending start or stop goes out,
\* the addressed target answers the address byte one way or the other, a
\* buffered byte is shifted out, a receiver receives.  Nothing is assumed of
\* error flags or of other masters.
Fairness ==
    /\ WF_vars(DriverStep)
    /\ WF_vars(HwStartSent)
    /\ WF_vars(HwAddrAck \/ HwAddrNack)
    /\ WF_vars(HwByteSent)
    /\ WF_vars(HwByteFinished)
    /\ WF_vars(HwReceive)
    /\ WF_vars(HwStopSent)

FairSpec == Init /\ [][Next]_vars /\ Fairness

\* i2c1() and release() alone, over a wider range of clocks and configurations
MHz == 1000 * 1000
TimingClocks == {1 * MHz, 2 * MHz, 7372800, 8 * MHz, 16 * MHz, 36 * MHz, 40 * MHz, 48 * MHz}
TimingSpeeds == {50 * 1000, 100 * 1000, 400 * 1000, 1000 * 1000}

TimingInputs ==
    { OpenArg(p, [speed |-> v, duty |-> d], k) :
        p \in Pairs, v \in TimingSpeeds, d \in DutyCycles, k \in TimingClocks }

NextTiming ==
    \/ \E a \in TimingInputs : Open(a.pair, a.config, a.clock)
    \/ \E k \in 1..Len(engines) : Release(k)

TimingSpec == Init /\ [][NextTiming]_vars

\* write and read alone, short, over address values of all eight bits: each
\* 7-bit address comes with the value 128 above it
WideAddresses == {80, 127, 80 + 128, 127 + 128}

\* the one way the engine of these calls is made
AddrOpen == OpenArg("PD1_PD0", fast_mode_plus, 24 * MHz)

AddrCalls ==
    \/ \E a \in WideAddresses, m \in 0..MaxPart : CallWrite(a, BytesArg(m))
    \/ \E a \in WideAddresses, n \in 0..MaxPart : CallRead(a, n)

NextAddr ==
    \/ Open(AddrOpen.pair, AddrOpen.config, AddrOpen.clock)
    \/ \E k \in 1..Len(engines) : Release(k)
    \/ AddrCalls
    \/ DriverStep
    \/ Hardware

AddrSpec == Init /\ [][NextAddr]_vars

\* one engine, made once and never made again after its release: calls to
\* one address
ErrCalls ==
    \/ \E m \in 0..MaxPart : CallWrite(80, BytesArg(m))
    \/ \E n \in 0..MaxPart : CallRead(80, n)
    \/ \E m \in 0..MaxPart, n \in 0..MaxPart : CallWriteRead(80, BytesArg(m), n)

NextErr ==
    \/ (op = "none" /\ Open(AddrOpen.pair, AddrOpen.config, AddrOpen.clock))
    \/ \E k \in 1..Len(engines) : Release(k)
    \/ ErrCalls
    \/ DriverStep
    \/ Hardware

ErrSpec == Init /\ [][NextErr]_vars

----------------------------------------------------------------------------
(* Reading the log of a call *)

\* an access without the bits of the control register it does not change
Shape(e) == <<e.reg, e.what, IF e.reg = "DATAR" THEN e.val.datar ELSE 0>>

Shapes(l) == [k \in 1..Len(l) |-> Shape(l[k])]

IsStar1Read(e) == e.reg = "STAR1"
NotStar1Read(e) == e.reg # "STAR1"
IsStartSet(e) == e.reg = "CTLR1" /\ e.what = "start set"
IsStopSet(e)  == e.reg = "CTLR1" /\ e.what = "stop set"
IsDatarRead(e) == e.reg = "DATAR" /\ e.what = "read"

\* control and data register accesses of the call, in order
ControlAndData(l) == SelectSeq(l, NotStar1Read)

StartShape == <<"CTLR1", "start set", 0>>
StopShape  == <<"CTLR1", "stop set", 0>>
DatarW(v)  == <<"DATAR", "write", v>>
DatarR(v)  == <<"DATAR", "read", v>>

\* start, address byte with direction bit 0, the bytes in order, stop
WriteShapes(a, bs) ==
    <<StartShape, DatarW(2 * a)>> \o [k \in 1..Len(bs) |-> DatarW(bs[k])] \o <<StopShape>>

\* start, address byte with direction bit 1, one read per slot, stop
ReadShapes(a, buf) ==
    <<StartShape, DatarW(2 * a + 1)>> \o [k \in 1..Len(buf) |-> DatarR(buf[k])] \o <<StopShape>>

\* every start entry of the log wrote START = 1, every stop entry STOP = 1
BitsAsserted(l) ==
    \A k \in 1..Len(l) :
        /\ IsStartSet(l[k]) => l[k].val.start
        /\ IsStopSet(l[k]) => l[k].val.stop

Returned(o) == Idle /\ op = o

----------------------------------------------------------------------------
(* Claims *)

\* C1: a write call that has returned (7-bit address, N >= 0 bytes) has
\* accessed the control and data registers exactly so: one start-bit
\* assertion, one DATAR write of the address byte (2 * address), N DATAR
\* writes of the caller's bytes in their order, one stop-bit assertion.
C1_WriteSequence ==
    (Returned("write") /\ address < 128) =>
        /\ Shapes(ControlAndData(log)) = WriteShapes(address, bytes)
        /\ BitsAsserted(log)

\* C1 witness: a write of two bytes has returned Ok
C1_Witness == Returned("write") /\ Len(bytes) = 2 /\ result = "Ok"

\* C2: a read call that has returned (7-bit address, buffer of N >= 0 slots)
\* has performed one start-bit assertion, one DATAR write of the address byte
\* with bit 0 set, N DATAR reads whose values are in slots 0..N-1 in order,
\* and one stop-bit assertion; and no wait of read depends on the
\* transmitter-mode flag: with TRA clear, the address wait ends on ADDR, BUSY,
\* MSL and the data wait on RXNE, MSL, BUSY.
C2_ReadSequence ==
    /\ (Returned("read") /\ address < 128) =>
          /\ Shapes(ControlAndData(log)) = ReadShapes(address, buffer)
          /\ BitsAsserted(log)
    /\ (pc = "r_ad" /\ haveS1 /\ s1.addr /\ i2c.star2.busy /\ i2c.star2.msl
            /\ ~i2c.star2.tra) => ~WaitPred(pc, s1, i2c.star2)
    /\ (pc = "r_rxne" /\ haveS1 /\ s1.rx_ne /\ i2c.star2.busy /\ i2c.star2.msl
            /\ ~i2c.star2.tra) => ~WaitPred(pc, s1, i2c.star2)

\* C2 witness: a read into two slots has returned Ok with two different bytes
C2_Witness ==
    /\ Returned("read") /\ Len(buffer) = 2 /\ result = "Ok"
    /\ buffer[1] # buffer[2] /\ buffer[1] # Fill /\ buffer[2] # Fill

\* C3: every call eventually returns; in particular, once the target has
\* left the address byte unacknowledged (AF latched, ADDR never set), the
\* running call returns AcknowledgeFailure.
C3_NackReturnsAckFailure ==
    (bus = "nack" /\ pc # "idle") ~> (Idle /\ result = "AcknowledgeFailure")

Count(l, Test(_)) == Len(SelectSeq(l, Test))

Untouched(buf) == buf = [k \in 1..Len(buf) |-> Fill]

\* C4: when the write part of write_read returns an error, write_read returns
\* that error at once: one start only, no read of DATAR, the buffer as it was.
C4_WriteErrorAborts ==
    (op = "write_read" /\ writeResult \in Errors) =>
        /\ Idle
        /\ result = writeResult
        /\ Count(log, IsStartSet) = 1
        /\ Count(log, IsDatarRead) = 0
        /\ Untouched(buffer)

\* C4 witness: write_read with a one-slot buffer has returned its write's error
C4_Witness ==
    Returned("write_read") /\ writeResult \in Errors /\ Len(buffer) = 1 /\ Len(bytes) = 1

\* the log entries a write of bs makes: start, address, bytes, stop, STAR1 read
WriteLen(bs) == Len(bs) + 4

\* C5: when its write part succeeds, write_read has made the accesses of
\* write(address, bytes) followed by those of read(address, buffer), with the
\* buffer and result of that read: two start..stop cycles, the second start
\* asserted with the first stop no longer pending (never a repeated start).
C5_WriteThenRead ==
    (Returned("write_read") /\ writeResult = "Ok" /\ address < 128) =>
        LET n == WriteLen(bytes) IN
        /\ Len(log) > n
        /\ Shapes(ControlAndData(SubSeq(log, 1, n))) = WriteShapes(address, bytes)
        /\ IsStar1Read(log[n])
        /\ Shapes(ControlAndData(SubSeq(log, n + 1, Len(log)))) = ReadShapes(address, buffer)
        /\ IsStar1Read(log[Len(log)])
        /\ BitsAsserted(log)
        /\ IsStartSet(log[n + 1]) /\ ~log[n + 1].val.stop
        /\ Count(log, IsStartSet) = 2 /\ Count(log, IsStopSet) = 2
        /\ (result = "Ok") = (log[Len(log)].val = [log[Len(log)].val EXCEPT
               !.berr = FALSE, !.af = FALSE, !.arlo = FALSE, !.ovr = FALSE])

\* C5 witness: write_read of one byte and one slot has returned Ok
C5_Witness ==
    /\ Returned("write_read") /\ result = "Ok"
    /\ Len(bytes) = 1 /\ Len(buffer) = 1 /\ ~Untouched(buffer)

\* C6: check_error reads STAR1 once and returns the set flag of highest
\* priority, BusError > AcknowledgeFailure > ArbitrationLost > Overrun, and
\* Ok exactly when none of the four is set.
C6_CheckErrorPriority ==
    (Idle /\ op \in {"write", "read", "write_read"}) =>
        LET f == log[Len(log)].val IN
        /\ IsStar1Read(log[Len(log)])
        /\ Count(log, IsStar1Read) = IF op = "write_read" /\ writeResult = "Ok" THEN 2 ELSE 1
        /\ (result = "Ok") = (~f.berr /\ ~f.af /\ ~f.arlo /\ ~f.ovr)
        /\ f.berr => result = "BusError"
        /\ (~f.berr /\ f.af) => result = "AcknowledgeFailure"
        /\ (~f.berr /\ ~f.af /\ f.arlo) => result = "ArbitrationLost"
        /\ (~f.berr /\ ~f.af /\ ~f.arlo /\ f.ovr) => result = "Overrun"

\* C6 witness: a call has returned BusError with the bus-error and the
\* acknowledge-failure flag both set
C6_Witness ==
    /\ Idle /\ op \in {"write", "read", "write_read"}
    /\ log[Len(log)].val.berr /\ log[Len(log)].val.af
    /\ result = "BusError"

\* the factor k the divider divides by, as the claim gives it
ClaimedFactor(config) ==
    IF config.speed <= 100 * 1000 THEN 2
    ELSE IF config.duty = "Perc33" THEN 3 ELSE 25

\* C7: the divider in the timing register is the truncating quotient
\* clock / (k * speed), k = 2 in standard mode, 3 in fast mode at 33%, 25 in
\* fast mode at 36%; (16 MHz, 100 kHz, 33%) gives 80, (8 MHz, 400 kHz, 33%)
\* gives 6, (48 MHz, 1 MHz, 33%) gives 16.
C7_Divider ==
    Live =>
        /\ i2c.ckcfgr.ccr =
              openArgs.clock \div (ClaimedFactor(openArgs.config) * openArgs.config.speed)
        /\ (openArgs.clock = 16 * MHz /\ openArgs.config = slow_mode) => i2c.ckcfgr.ccr = 80
        /\ (openArgs.clock = 8 * MHz /\ openArgs.config = fast_mode) => i2c.ckcfgr.ccr = 6
        /\ (openArgs.clock = 48 * MHz /\ openArgs.config = fast_mode_plus) => i2c.ckcfgr.ccr = 16

\* C7 witness: opened at 48 MHz for 1 MHz / 33%, the divider is 16
C7_Witness ==
    /\ Live /\ openArgs.clock = 48 * MHz /\ openArgs.config = fast_mode_plus
    /\ i2c.ckcfgr.ccr = 16

\* C8 as stated: the divider is computed from the clock clamped to
\* 2 MHz..36 MHz (1 MHz counts as 2 MHz, 40 MHz as 36 MHz).
C8_DividerFromClampedClock ==
    Live =>
        i2c.ckcfgr.ccr =
            Clamp(openArgs.clock, 2 * MHz, 36 * MHz)
                \div (ClaimedFactor(openArgs.config) * openArgs.config.speed)

\* C8 as amended: the clamp to 2..36 (MHz) applies to the frequency field of
\* control register 2 only; the divider is computed from the clock as given:
\* at 1 MHz the field holds 2 and the divider comes from 1 MHz, at 40 MHz the
\* field holds 36 and the divider comes from 40 MHz.
C8_ClampInFreqFieldOnly ==
    Live =>
        /\ i2c.ctlr2.freq = Clamp(openArgs.clock \div MHz, 2, 36)
        /\ openArgs.clock = 1 * MHz =>
              /\ i2c.ctlr2.freq = 2
              /\ i2c.ckcfgr.ccr =
                    (1 * MHz) \div (ClaimedFactor(openArgs.config) * openArgs.config.speed)
        /\ openArgs.clock = 40 * MHz =>
              /\ i2c.ctlr2.freq = 36
              /\ i2c.ckcfgr.ccr =
                    (40 * MHz) \div (ClaimedFactor(openArgs.config) * openArgs.config.speed)

\* C8 witness: opened at 40 MHz for 100 kHz, the field holds 36 and the
\* divider is 200 (from 36 MHz it would be 180)
C8_Witness ==
    /\ Live /\ openArgs.clock = 40 * MHz /\ openArgs.config = slow_mode
    /\ i2c.ctlr2.freq = 36 /\ i2c.ckcfgr.ccr = 200

\* the register block a first i2c1() call leaves, and the writes it makes
FirstOpenI2c(a) ==
    [ctlr1  |-> [pe |-> TRUE, ack |-> TRUE, start |-> FALSE, stop |-> FALSE, swrst |-> FALSE],
     ctlr2  |-> [freq |-> FreqOf(a.clock)],
     ckcfgr |-> [ccr |-> CcrField(Ccr(a.clock, a.config)), f_s |-> F_SBit(a.config),
                 duty |-> DutyBit(a.config)],
     star1  |-> Star1Reset,
     star2  |-> Star2Reset,
     datar  |-> DatarReset]

FirstOpenLog(a) ==
    << Acc("RCC_APB1PCENR", "i2c1en set",   [i2c1en |-> TRUE]),
       Acc("RCC_APB1PRSTR", "i2c1rst set",  [i2c1rst |-> TRUE]),
       Acc("RCC_APB1PRSTR", "i2c1rst clear", [i2c1rst |-> FALSE]),
       Acc("RCC_APB2PCENR", "afioen set",   [afioen |-> TRUE]),
       Acc("CTLR1",  "swrst set",
           [pe |-> FALSE, ack |-> FALSE, start |-> FALSE, stop |-> FALSE, swrst |-> TRUE]),
       Acc("CTLR1",  "swrst clear",
           [pe |-> FALSE, ack |-> FALSE, start |-> FALSE, stop |-> FALSE, swrst |-> FALSE]),
       Acc("PCFR",   "remap", RemapOf(a.pair)),
       Acc("CTLR2",  "freq", [freq |-> FreqOf(a.clock)]),
       Acc("CKCFGR", "ccr f_s duty", FirstOpenI2c(a).ckcfgr),
       Acc("CTLR1",  "pe set",
           [pe |-> TRUE, ack |-> FALSE, start |-> FALSE, stop |-> FALSE, swrst |-> FALSE]),
       Acc("CTLR1",  "ack set",
           [pe |-> TRUE, ack |-> TRUE, start |-> FALSE, stop |-> FALSE, swrst |-> FALSE]) >>

\* C9: whatever happened before it, every i2c1() call (a first one, or one on
\* the handles release returned) makes the register writes of a first-time
\* open, with the same values, and leaves the same register state.
C9_ReopenAsFirstOpen ==
    [][ Len(engines') > Len(engines) =>
           /\ log' = FirstOpenLog(openArgs')
           /\ i2c' = FirstOpenI2c(openArgs')
           /\ pcfr' = RemapOf(openArgs'.pair)
           /\ rcc' = [i2c1en |-> TRUE, afioen |-> TRUE] ]_vars

\* C9 witness: i2c1() has returned after a release, having found status
\* flags or data left by transactions
C9_Witness == op = "open" /\ dirtyOpen /\ Live

\* the handles of all live engines
EngineHandles == UNION {HandlesOf(engines[k]) : k \in 1..Len(engines)}

\* C10: at most one engine exists; while it does, it holds the I2C1 handle
\* and its two pin handles and the caller holds none of them (no second
\* open); after release the caller holds every handle again, no engine is
\* left and no call runs on one.
C10_OneEngine ==
    /\ Len(engines) <= 1
    /\ EngineHandles \cap callerHas = {}
    /\ EngineHandles \cup callerHas = Resources
    /\ Live => (Cardinality(EngineHandles) = 3 /\ "I2C1" \in EngineHandles)
    /\ ~Live => (callerHas = Resources /\ Idle)

\* C10 witness: release has returned the three handles of the only engine
C10_Witness == op = "release" /\ ~Live /\ callerHas = Resources /\ ~i2c.ctlr1.pe

----------------------------------------------------------------------------
(* wait for the free bus *)

IdleWaits == {"w_idle", "r_idle"}
StartPcs  == {"w_start", "r_start"}

\* the step is the STAR2 read that ends an iteration of a wait
EndsPoll == pc \in WaitPcs /\ haveS1 /\ ~haveS1'

\* C11: write and read come to the statement that sets START only by an
\* iteration of the first wait whose STAR2 read saw BUSY clear, and START is
\* set from nowhere else; an iteration that sees BUSY set leaves the call where
\* it is, and as long as the call is in that wait it writes no register (the
\* log does not grow) and does not return (no result, no count of
\* iterations that would end the wait)
C11_StartAfterBusFree ==
    [][ /\ (pc' \in StartPcs /\ pc' # pc) =>
              (pc \in IdleWaits /\ EndsPoll /\ ~i2c.star2.busy)
        /\ (log' # log /\ Len(log') > 0 /\ IsStartSet(log'[Len(log')])) =>
              (pc \in StartPcs /\ i2c'.ctlr1.start)
        /\ (pc \in IdleWaits /\ EndsPoll /\ i2c.star2.busy) => pc' = pc
        /\ pc \in IdleWaits =>
              (log' = log /\ result' = result /\ pc' \in {pc} \cup StartPcs) ]_vars

\* C11 witness: a write is in the middle of an iteration of its first wait,
\* the bus is busy with another master, nothing has been written
C11_Witness ==
    pc = "w_idle" /\ op = "write" /\ haveS1 /\ i2c.star2.busy /\ log = << >>

----------------------------------------------------------------------------
(* order of the writes of i2c1() *)

IsWrite(e, reg, what) == e.reg = reg /\ e.what = what

\* the places of the log l where the write (reg, what) stands
Places(l, reg, what) == {k \in 1..Len(l) : IsWrite(l[k], reg, what)}

\* the write (reg, what) stands in l once, before place n
OnceBefore(l, reg, what, n) ==
    /\ Cardinality(Places(l, reg, what)) = 1
    /\ \A k \in Places(l, reg, what) : k < n

\* C12: in the writes of an i2c1() call that has returned, ACK is set by
\* one write that comes after the one write that sets PE; before the PE write
\* come SWRST set, then SWRST clear, the write of the frequency field and the
\* write of the timing register, once each; no control register write before
\* the PE write has PE = 1 and none before the ACK write has ACK = 1 (the PE
\* write included); and control register 1 then holds PE = 1, ACK = 1,
\* SWRST = 0
C12_OpenOrder ==
    (op = "open") =>
        /\ Cardinality(Places(log, "CTLR1", "pe set")) = 1
        /\ Cardinality(Places(log, "CTLR1", "ack set")) = 1
        /\ \A pe \in Places(log, "CTLR1", "pe set"), ack \in Places(log, "CTLR1", "ack set") :
              /\ pe < ack
              /\ OnceBefore(log, "CTLR1", "swrst clear", pe)
              /\ OnceBefore(log, "CTLR2", "freq", pe)
              /\ OnceBefore(log, "CKCFGR", "ccr f_s duty", pe)
              /\ \A c \in Places(log, "CTLR1", "swrst clear") :
                    /\ OnceBefore(log, "CTLR1", "swrst set", c)
                    /\ ~log[c].val.swrst
                    /\ \A t \in Places(log, "CTLR1", "swrst set") : log[t].val.swrst
              /\ log[pe].val.pe /\ log[ack].val.ack /\ log[ack].val.pe
              /\ \A k \in 1..Len(log) :
                    log[k].reg = "CTLR1" =>
                        /\ k < pe => ~log[k].val.pe
                        /\ k < ack => ~log[k].val.ack
        /\ i2c.ctlr1.pe /\ i2c.ctlr1.ack /\ ~i2c.ctlr1.swrst

\* C12 witness: i2c1() has returned an engine for the pair (PD1, PD0) and
\* has made its eleven writes
C12_Witness ==
    op = "open" /\ Live /\ openArgs.pair = "PD1_PD0" /\ Len(log) = 11 /\ i2c.ctlr1.ack

----------------------------------------------------------------------------
(* release *)

\* the step is a release: an engine is consumed
IsRelease == Len(engines') < Len(engines)

\* C13: a release step makes one register write, of CTLR1 with PE = 0 and
\* every other bit as it was; after it the I2C1 registers are those of before
\* with PE = 0 (ACK, START, STOP, SWRST, the frequency field, the timing
\* register, both status registers and the data register unchanged), and the
\* remap register and the clock enables are unchanged
C13_ReleaseClearsPeOnly ==
    [][ IsRelease =>
          /\ i2c' = [i2c EXCEPT !.ctlr1.pe = FALSE]
          /\ pcfr' = pcfr
          /\ rcc' = rcc
          /\ log' = << Acc("CTLR1", "pe clear", [i2c.ctlr1 EXCEPT !.pe = FALSE]) >> ]_vars

\* C13 witness: release has returned with PE = 0 while ACK, a latched
\* acknowledge failure, the frequency field, the divider and a remap bit are
\* still as the calls before it left them
C13_Witness ==
    /\ op = "release" /\ ~Live
    /\ ~i2c.ctlr1.pe /\ i2c.ctlr1.ack /\ i2c.star1.af
    /\ i2c.ctlr2.freq = ClockMaxMHz /\ i2c.ckcfgr.duty /\ pcfr.i2c1remap1

----------------------------------------------------------------------------
(* what the polls of write have seen when the next command is issued *)

\* the flags the STAR1 value a and the STAR2 value b show
SawStart(a, b)    == a.sb /\ b.busy /\ b.msl
SawAddress(a, b)  == a.addr /\ a.tx_e /\ b.busy /\ b.msl /\ b.tra
SawEmpty(a, b)    == a.tx_e
SawFinished(a, b) == a.btf /\ a.tx_e /\ b.busy /\ b.msl /\ b.tra

\* the step brings the call to position p
Enters(p) == pc' = p /\ pc # p

\* the step appends an access of the data register or a stop to the log
Commands == log' # log /\ Len(log') = Len(log) + 1 /\ ~IsStar1Read(log'[Len(log')])

\* C14: write comes to the statement that writes the address byte only by
\* a poll that saw {SB, BUSY, MSL}; it leaves the wait after the address only
\* by a poll that saw {ADDR, TxE, BUSY, MSL, TRA}, and goes from there to the
\* wait before the first byte (or, with no bytes, to the last wait); it comes
\* to the write of a data byte only by a poll that saw TxE, made after the
\* byte before it was written; it comes to the stop only by a poll that saw
\* {BTF, TxE, BUSY, MSL, TRA}; and a command is issued only from the
\* position the poll before it led to, by the one step after that poll
C14_CommandsAfterPolls ==
    [][ /\ Enters("w_addr") => (pc = "w_sb" /\ EndsPoll /\ SawStart(s1, i2c.star2))
        /\ (pc = "w_ad" /\ pc' # pc) =>
              (EndsPoll /\ SawAddress(s1, i2c.star2) /\ pc' = WLoop(0) /\ idx = 0)
        /\ Enters("w_data") => (pc = "w_txe" /\ EndsPoll /\ SawEmpty(s1, i2c.star2))
        /\ Enters("w_txe") => (pc \in {"w_ad", "w_data"} /\ idx' < Len(bytes))
        /\ Enters("w_btf") => (pc \in {"w_ad", "w_data"} /\ idx' = Len(bytes))
        /\ Enters("w_stop") => (pc = "w_btf" /\ EndsPoll /\ SawFinished(s1, i2c.star2))
        /\ (Commands /\ pc \in {"w_addr", "w_data", "w_stop"}) =>
              pc' \in {"w_ad", "w_txe", "w_btf", "w_check"}
        /\ (Commands /\ op' \in {"write", "write_read"} /\ pc' \in {"w_ad", "w_txe", "w_btf", "w_check"}) =>
              pc \in {"w_start", "w_addr", "w_data", "w_stop"} ]_vars

\* C14 witness: a write of two bytes stands before its stop, both bytes
\* written, the last poll having seen BTF
C14_Witness ==
    pc = "w_stop" /\ op = "write" /\ Len(bytes) = 2 /\ idx = 2 /\ Len(log) = 4

----------------------------------------------------------------------------
(* the iterations of wait_while *)

\* the step is the STAR1 read that begins an iteration of a wait
BeginsPoll == ~haveS1 /\ haveS1'

\* the step is one of the running call (the bus controller changes none of
\* the call's variables)
CallMoves == callVars' # callVars \/ log' # log

\* C15: a wait is left only by a STAR2 read; in a wait, the call's next
\* step after a STAR2 read that did not end the wait is a STAR1 read, which
\* keeps the value read and changes nothing else; its next step after a STAR1
\* read is the STAR2 read (no access is logged in between), and that step
\* stays in the wait or leaves it as the wait's predicate says of the STAR1
\* value kept and the STAR2 value of that moment, for each of the nine waits
C15_PollPairs ==
    [][ /\ (pc \in WaitPcs /\ pc' # pc) => EndsPoll
        /\ (pc \in WaitPcs /\ ~haveS1 /\ CallMoves) => BeginsPoll
        /\ BeginsPoll =>
              (pc \in WaitPcs /\ s1' = i2c.star1 /\ pc' = pc /\ i2c' = i2c /\ log' = log)
        /\ haveS1 => (pc \in WaitPcs /\ log' = log /\ (CallMoves => EndsPoll))
        /\ EndsPoll =>
              pc' = (IF WaitPred(pc, s1, i2c.star2) THEN pc ELSE AfterWait(pc)) ]_vars

\* C15 witness: in the wait before a data byte, whose predicate uses STAR1
\* only, STAR1 has been read with TxE clear and TxE has been set since: the
\* STAR2 read is still to come, and the wait will go round once more
C15_Witness ==
    pc = "w_txe" /\ haveS1 /\ ~s1.tx_e /\ i2c.star1.tx_e

----------------------------------------------------------------------------
(* the return of write and read *)

TransferOps == {"write", "read", "write_read"}

\* the step is the return of write, of read (also as the second part of
\* write_read), or of the write part of write_read
ReturnsTransfer ==
    /\ op \in TransferOps
    /\ \/ pc # "idle" /\ pc' = "idle"
       \/ pc = "w_check" /\ pc' = "r_idle"

\* STAR1 reads logged by the part of the call that returns with log l: the
\* write part of write_read has logged one of them before the read part
Star1Reads(l) == Len(SelectSeq(l, IsStar1Read))
PartsDone == IF op = "write_read" /\ pc = "r_check" THEN 2 ELSE 1

\* C16: a write or read returns only by the step after the one that set
\* STOP: its last logged access is the stop, the returning step reads STAR1
\* once (the only examination of the error flags in that write or read) and
\* the value returned is the error of highest priority in the STAR1 of that
\* moment; before that step a call that is running has no result, whatever
\* error flags are latched
C16_ReturnAfterStop ==
    [][ /\ ReturnsTransfer =>
              /\ pc \in {"w_check", "r_check"}
              /\ Len(log) > 0 /\ IsStopSet(log[Len(log)]) /\ log[Len(log)].val.stop
              /\ log' = Append(log, Acc("STAR1", "read", i2c.star1))
              /\ Star1Reads(log') = PartsDone
              /\ pc' = "idle" => result' = check_error(i2c.star1)
              /\ pc' = "r_idle" => (writeResult' = "Ok" /\ check_error(i2c.star1) = "Ok")
        /\ (op \in TransferOps /\ pc # "idle" /\ ~ReturnsTransfer) =>
              (result' = "none" /\ Star1Reads(log') = Star1Reads(log)) ]_vars

\* C16 witness: a read into two slots has an overrun latched while it still
\* waits for its first byte; it goes on (and returns Overrun after its stop)
C16_Witness ==
    pc = "r_rxne" /\ op = "read" /\ Len(buffer) = 2 /\ idx = 0 /\ i2c.star1.ovr
    /\ ~i2c.star1.berr /\ ~i2c.star1.af /\ ~i2c.star1.arlo /\ result = "none"

----------------------------------------------------------------------------
(* the mode bits of the timing register *)

\* C17: after i2c1(), and in the value it wrote to the timing register,
\* F/S is 1 exactly for a speed above 100 000 Hz (0 at 100 000 Hz and below)
\* and DUTY is 1 exactly for the duty cycle 36%, in fast and in standard mode
C17_ModeBits ==
    (op = "open") =>
        /\ Cardinality(Places(log, "CKCFGR", "ccr f_s duty")) = 1
        /\ \A k \in Places(log, "CKCFGR", "ccr f_s duty") : log[k].val = i2c.ckcfgr
        /\ i2c.ckcfgr.f_s = (openArgs.config.speed > 100 * 1000)
        /\ i2c.ckcfgr.duty = (openArgs.config.duty = "Perc36")

\* C17 witness: opened for exactly 100 kHz with the duty cycle 36%:
\* standard mode, and the duty bit is set
C17_Witness ==
    /\ op = "open" /\ Live
    /\ openArgs.config = [speed |-> 100 * 1000, duty |-> "Perc36"]
    /\ ~i2c.ckcfgr.f_s /\ i2c.ckcfgr.duty

----------------------------------------------------------------------------
(* the address byte *)

\* the address byte the running or returned write or read has logged
SentAddress == log[2].val.datar

DirectionBit == IF op = "read" THEN 1 ELSE 0

\* C18: the second access of every write and read is the write of the
\* address byte to DATAR; for an address a in 0..127 the byte is 2a in write
\* and 2a + 1 in read, and no other address in 0..127 gives that byte; for an
\* address a in 128..255 the byte is that of a - 128 (the shift drops bit 7),
\* and the call goes on as for a - 128
C18_AddressByte ==
    (op \in {"write", "read"} /\ Len(log) >= 2) =>
        /\ log[2].reg = "DATAR" /\ log[2].what = "write"
        /\ address < 128 => SentAddress = 2 * address + DirectionBit
        /\ address >= 128 => SentAddress = 2 * (address - 128) + DirectionBit
        /\ SentAddress \in 0..255
        /\ \A b \in 0..127 :
              (b # address /\ b + 128 # address) =>
                  (AddrWrite(b) # SentAddress /\ AddrRead(b) # SentAddress)

\* C18 witness: a write to the address value 80 + 128 has returned Ok with the
\* address byte of address 80 on the bus
C18_Witness ==
    Returned("write") /\ address = 80 + 128 /\ result = "Ok" /\ Len(bytes) = 1
    /\ SentAddress = 2 * 80

----------------------------------------------------------------------------
(* latched error flags *)

\* the place of a result in the order of check_error: the later it is tested,
\* the lower
Rank(res) ==
    CASE res = "BusError"           -> 4
      [] res = "AcknowledgeFailure" -> 3
      [] res = "ArbitrationLost"    -> 2
      [] res = "Overrun"            -> 1
      [] OTHER                      -> 0

\* a write, read or write_read has returned
TransferReturned == Idle /\ op \in TransferOps

\* ... an error of rank r or higher
ReturnedAtLeast(r) == TransferReturned /\ Rank(result) >= r

\* C19: with one engine that is not made again, no step of write, read,
\* write_read (check_error included) or release, and no step of the bus
\* controller, takes an error flag of STAR1 from 1 to 0, and STAR1 is only ever
\* read; and once a write, read or write_read has returned an error, every
\* write, read or write_read that returns later returns an error of the same
\* or a higher rank
C19_ErrorsStay ==
    /\ [][ \A f \in ErrorFlags : i2c.star1[f] => i2c'.star1[f] ]_vars
    /\ [](\A k \in 1..Len(log) : log[k].reg = "STAR1" => log[k].what = "read")
    /\ \A r \in 1..4 : [](ReturnedAtLeast(r) => [](TransferReturned => ReturnedAtLeast(r)))

\* C19 witness: a write of one byte has logged all its accesses and
\* returned AcknowledgeFailure, the flag being the only one latched
C19_Witness ==
    /\ Returned("write") /\ result = "AcknowledgeFailure" /\ Len(bytes) = 1
    /\ Shapes(ControlAndData(log)) = WriteShapes(address, bytes)
    /\ i2c.star1.af /\ ~i2c.star1.berr /\ ~i2c.star1.arlo /\ ~i2c.star1.ovr

----------------------------------------------------------------------------
(* the range of the divider *)

Presets == {slow_mode, fast_mode, fast_mode_plus}

\* the peripheral clocks the comment at line 102 calls valid
ValidClock(hz) == hz >= ClockMinMHz * MHz /\ hz <= ClockMaxMHz * MHz

\* C20: opened with a clock of 2 MHz to 36 MHz and one of the three
\* presets, the divider i2c1() computes is in 1..4095, and the divider field
\* of the timing register holds that quotient, not 0
C20_DividerInRange ==
    (op = "open" /\ ValidClock(openArgs.clock) /\ openArgs.config \in Presets) =>
        /\ Ccr(openArgs.clock, openArgs.config) >= 1
        /\ Ccr(openArgs.clock, openArgs.config) <= 4095
        /\ i2c.ckcfgr.ccr = Ccr(openArgs.clock, openArgs.config)
        /\ i2c.ckcfgr.ccr # 0
====
